---- MODULE Spec2Model ----
(***************************************************************************)
(* Model of the NYC collisions ETL job (etl_job.py, config.py).            *)
(*                                                                         *)
(* Strings are sequences of one-character strings, so that comparison,     *)
(* split("T") and cast("int") are computed the way the code computes them. *)
(* A nullable value is a sequence of length at most one: Null is <<>>,     *)
(* the value v is <<v>>.                                                   *)
(*                                                                         *)
(* A date "yyyy-MM-dd" is abstracted to one digit, a crash_date            *)
(* "yyyy-MM-ddTHH:mm:ss.SSS" to digit, "T", digit.  The columns derived    *)
(* from crash_timestamp (year, month, day_of_week, is_weekend, hour,       *)
(* time_of_day) and the latitude/longitude/location re-encodings are not   *)
(* part of the transformed rows of this model.                             *)
(***************************************************************************)
EXTENDS Integers, Sequences, FiniteSets, TLC

\* ------------------------------------------------------------------ bounds
MaxRuns == 2
MaxPages == 2
MaxPageLen == 2
MaxDay == 2
MaxCount == 1

\* ------------------------------------------------------------ config.py
LIMIT == 50000

\* ----------------------------------------------------------------- strings
Null == <<>>

Some(v) == <<v>>

Digits == <<"0", "1", "2", "3", "4", "5", "6", "7", "8", "9">>

IsDigit(c) == \E i \in 1..10 : Digits[i] = c

DigitVal(c) == (CHOOSE i \in 1..10 : Digits[i] = c) - 1

\* code point of a character, for the lexicographic order of strings
Ord(c) ==
    IF c = "-" THEN 45
    ELSE IF IsDigit(c) THEN 48 + DigitVal(c)
    ELSE IF c = "T" THEN 84
    ELSE 120

RECURSIVE StrLess(_, _)
StrLess(a, b) ==
    IF a = <<>> THEN b # <<>>
    ELSE IF b = <<>> THEN FALSE
    ELSE IF Head(a) = Head(b) THEN StrLess(Tail(a), Tail(b))
    ELSE Ord(Head(a)) < Ord(Head(b))

StrLeq(a, b) == a = b \/ StrLess(a, b)

\* s.split("T")[0]
SplitT(s) ==
    LET idx == {i \in 1..Len(s) : s[i] = "T"}
    IN  IF idx = {} THEN s
        ELSE SubSeq(s, 1, (CHOOSE i \in idx : \A j \in idx : i <= j) - 1)

RECURSIVE DigitsValue(_)
DigitsValue(s) ==
    IF s = <<>> THEN 0
    ELSE 10 * DigitsValue(SubSeq(s, 1, Len(s) - 1)) + DigitVal(s[Len(s)])

\* col(c).cast("int") on a nullable string: a non-parseable value is null
\* (the strings of this model are short: every value fits 32 bits)
CastInt(v) ==
    IF v = Null THEN Null
    ELSE LET s == v[1]
             neg == s # <<>> /\ Head(s) = "-"
             body == IF neg THEN Tail(s) ELSE s
         IN  IF body = <<>> \/ \E i \in 1..Len(body) : ~IsDigit(body[i])
             THEN Null
             ELSE Some(IF neg THEN 0 - DigitsValue(body) ELSE DigitsValue(body))

RECURSIVE NatToStr(_)
NatToStr(n) ==
    IF n < 10 THEN <<Digits[n + 1]>>
    ELSE NatToStr(n \div 10) \o <<Digits[(n % 10) + 1]>>

IntToStr(n) == IF n < 0 THEN <<"-">> \o NatToStr(0 - n) ELSE NatToStr(n)

\* the date string of day d, and the crash_date string of day d
DateStr(d) == NatToStr(d)

CrashDateStr(d) == NatToStr(d) \o <<"T", "0">>

\* ------------------------------------------------------------- data frames
\* A raw record is a JSON object: a function from the field names it holds to
\* strings.  A DataFrame is a set of columns and a sequence of rows, each row
\* a function from the columns to nullable values.
InjuredCols == {"number_of_persons_injured", "number_of_pedestrians_injured",
                "number_of_cyclist_injured", "number_of_motorist_injured"}

KilledCols == {"number_of_persons_killed", "number_of_pedestrians_killed",
               "number_of_cyclist_killed", "number_of_motorist_killed"}

int_cols == InjuredCols \cup KilledCols

\* spark.createDataFrame(data): the schema is merged over all records, a
\* field a record does not hold is null in its row
createDataFrame(data) ==
    LET cols == UNION {DOMAIN data[i] : i \in 1..Len(data)}
    IN  [columns |-> cols,
         rows |-> [i \in 1..Len(data) |->
                    [c \in cols |-> IF c \in DOMAIN data[i] THEN Some(data[i][c]) ELSE Null]]]

\* all_data_df.unionByName(batch_df), allowMissingColumns left at its default:
\* it raises unless both frames have the same columns
unionByNameRaises(a, b) == a.columns # b.columns

unionByName(a, b) == [columns |-> a.columns, rows |-> a.rows \o b.rows]

\* faulty variant: the least crash_date is taken instead of the greatest
spark_min(df, c) ==
    LET vals == {df.rows[i][c][1] : i \in {j \in 1..Len(df.rows) : df.rows[j][c] # Null}}
    IN  IF vals = {} THEN Null
        ELSE Some(CHOOSE m \in vals : \A v \in vals : StrLeq(m, v))

\* spark_max(col("crash_date")): the greatest non-null string, null if none
spark_max(df, c) ==
    LET vals == {df.rows[i][c][1] : i \in {j \in 1..Len(df.rows) : df.rows[j][c] # Null}}
    IN  IF vals = {} THEN Null
        ELSE Some(CHOOSE m \in vals : \A v \in vals : StrLeq(v, m))

\* lines 318-322: the date part of the greatest crash_date of the batch;
\* None.split raises when every crash_date is null
MaxDateRaises(df) == "crash_date" \notin df.columns \/ spark_max(df, "crash_date") = Null

MaxDate(df) == SplitT(spark_max(df, "crash_date")[1])

\* ---------------------------------------------------------- transform_data
\* the columns transform_data names without testing that the batch has them
RequiredColumns ==
    {"collision_id", "crash_date", "crash_time", "latitude", "longitude"} \cup int_cols

\* the columns of desired_columns that this model carries
desired_columns ==
    {"collision_id", "crash_date", "borough", "total_injuries", "total_fatalities",
     "severity_category"} \cup int_cols

\* integer addition of two nullable columns: a null addend gives null
Plus(a, b) == IF a = Null \/ b = Null THEN Null ELSE Some(a[1] + b[1])

\* to_date(col("crash_date"), "yyyy-MM-dd") under the LEGACY parser: the
\* leading date is parsed, what follows it is ignored
to_date(v) ==
    IF v = Null THEN Null
    ELSE LET s == v[1]
             n == IF \A i \in 1..Len(s) : IsDigit(s[i]) THEN Len(s)
                  ELSE (CHOOSE i \in 1..Len(s) :
                          ~IsDigit(s[i]) /\ \A j \in 1..(i - 1) : IsDigit(s[j])) - 1
         IN  IF n = 0 THEN Null ELSE Some(SubSeq(s, 1, n))

total_injuries(r) ==
    Plus(Plus(Plus(CastInt(r["number_of_persons_injured"]),
                   CastInt(r["number_of_pedestrians_injured"])),
              CastInt(r["number_of_cyclist_injured"])),
         CastInt(r["number_of_motorist_injured"]))

total_fatalities(r) ==
    Plus(Plus(Plus(CastInt(r["number_of_persons_killed"]),
                   CastInt(r["number_of_pedestrians_killed"])),
              CastInt(r["number_of_cyclist_killed"])),
         CastInt(r["number_of_motorist_killed"]))

\* faulty variant: the second threshold is strict
severity_category_strict(ti, tf) ==
    LET s == Plus(ti, tf)
    IN  IF s # Null /\ s[1] = 0 THEN "Minor"
        ELSE IF s # Null /\ s[1] < 2 THEN "Moderate"
        ELSE "Severe"

\* when(sum == 0, "Minor").when(sum <= 2, "Moderate").otherwise("Severe"):
\* a comparison with null is not true
severity_category(ti, tf) ==
    LET s == Plus(ti, tf)
    IN  IF s # Null /\ s[1] = 0 THEN "Minor"
        ELSE IF s # Null /\ s[1] <= 2 THEN "Moderate"
        ELSE "Severe"

dropna(rows, c) == SelectSeq(rows, LAMBDA r : r[c] # Null)

TransformRow(r, cols) ==
    [c \in cols |->
        IF c = "collision_id" THEN CastInt(r["collision_id"])
        ELSE IF c \in int_cols THEN CastInt(r[c])
        ELSE IF c = "crash_date" THEN to_date(r["crash_date"])
        ELSE IF c = "total_injuries" THEN total_injuries(r)
        ELSE IF c = "total_fatalities" THEN total_fatalities(r)
        ELSE IF c = "severity_category"
             THEN Some(severity_category(total_injuries(r), total_fatalities(r)))
        ELSE r[c]]

transform_data_raises(df) == ~(RequiredColumns \subseteq df.columns)

\* the rows transform_data writes to the processed data path
transform_data(df) ==
    LET kept == dropna(df.rows, "collision_id")
        existing_columns ==
            desired_columns \cap
              (df.columns \cup {"total_injuries", "total_fatalities", "severity_category"})
    IN  [i \in 1..Len(kept) |-> TransformRow(kept[i], existing_columns)]

\* ------------------------------------------------------- the Socrata API
\* A record of the remote dataset: the API leaves a null field out of the
\* JSON object, so collision_id may be absent.
RawRecord(cid, d) ==
    LET keys == {"crash_date", "crash_time", "latitude", "longitude", "borough"}
                  \cup int_cols
                  \cup (IF cid = Null THEN {} ELSE {"collision_id"})
    IN  [f \in keys |->
            IF f = "crash_date" THEN CrashDateStr(d)
            ELSE IF f = "collision_id" THEN cid[1]
            ELSE <<"0">>]

\* The remote dataset, in the order in which the API lists it: on each day
\* one crash with a collision_id and one without.
Dataset ==
    [i \in 1..(2 * MaxDay) |->
        RawRecord(IF i % 2 = 1 THEN Some(<<"7">>) ELSE Null, (i + 1) \div 2)]

\* faulty variant: the request carries no filter on crash_date
where_clause_dropped(rec, date) == "crash_date" \in DOMAIN rec

\* "$where": f"crash_date > '{last_collision_date}'": the API compares the
\* timestamp crash_date with the date taken at midnight
where_clause(rec, date) ==
    "crash_date" \in DOMAIN rec /\ StrLess(date \o <<"T", "0">>, rec["crash_date"])

Matching(date) == {i \in 1..Len(Dataset) : where_clause(Dataset[i], date)}

RECURSIVE InOrder(_)
InOrder(I) ==
    IF I = {} THEN <<>>
    ELSE LET m == CHOOSE i \in I : \A j \in I : i <= j
         IN  <<m>> \o InOrder(I \ {m})

\* the non-empty pages the API can answer a request with: some of the
\* matching records, in the order of the dataset
ApiPages(date) ==
    {[k \in 1..Cardinality(I) |-> Dataset[InOrder(I)[k]]] :
        I \in {J \in SUBSET Matching(date) : J # {} /\ Cardinality(J) <= MaxPageLen}}

\* --------------------------------------------------------------- the job
VARIABLES
    config_doc,               \* last_collision_date of the S3 configuration file
    processed_data,           \* rows under the processed data path
    redshift_table,           \* rows of the warehouse table
    s3_logs,                  \* number of log files uploaded
    run,                      \* number of the current invocation of main()
    pc,                       \* position in main()
    last_collision_date,      \* main's local, nullable
    offset,                   \* download_new_data's local
    all_data_df,              \* download_new_data's local and result, nullable
    new_last_collision_date,  \* main's local, nullable
    requests,                 \* $offset of each request of this run, in order
    responses,                \* the API's answer to each request, in order
    calls,                    \* the steps main() has called in this run, in order
    raised,                   \* the step that raised in this run, "" if none
    start                     \* the persistent state when this run began

vars == <<config_doc, processed_data, redshift_table, s3_logs, run, pc,
          last_collision_date, offset, all_data_df, new_last_collision_date,
          requests, responses, calls, raised, start>>

store == <<config_doc, processed_data, redshift_table>>

Snapshot == [config_doc |-> config_doc, processed_data |-> processed_data,
             redshift_table |-> redshift_table]

Init ==
    /\ config_doc = DateStr(0)
    /\ processed_data = <<>>
    /\ redshift_table = <<>>
    /\ s3_logs = 0
    /\ run = 1
    /\ pc = "read"
    /\ last_collision_date = Null
    /\ offset = 0
    /\ all_data_df = Null
    /\ new_last_collision_date = Null
    /\ requests = <<>>
    /\ responses = <<>>
    /\ calls = <<>>
    /\ raised = ""
    /\ start = [config_doc |-> DateStr(0), processed_data |-> <<>>, redshift_table |-> <<>>]

Call(step) == calls' = Append(calls, step)

\* faulty variant: the exception leaves main() without the finally clause
Raise_SkipsFinally(step) ==
    /\ raised' = step
    /\ pc' = "end"

\* an exception inside the try block: the except clause logs it and the
\* finally clause runs
Raise(step) ==
    /\ raised' = step
    /\ pc' = "finally"

\* read_last_collision_date() returns the stored date
ReadWatermark ==
    /\ pc = "read"
    /\ Call("read_last_collision_date")
    /\ last_collision_date' = Some(config_doc)
    /\ pc' = "fetch"
    /\ offset' = 0
    /\ all_data_df' = Null
    /\ UNCHANGED <<store, s3_logs, run, new_last_collision_date, requests, responses,
                   raised, start>>

\* read_last_collision_date() raises (no such key, malformed document)
ReadWatermarkRaises ==
    /\ pc = "read"
    /\ Call("read_last_collision_date")
    /\ Raise("read_last_collision_date")
    /\ UNCHANGED <<store, s3_logs, run, last_collision_date, offset, all_data_df,
                   new_last_collision_date, requests, responses, start>>

\* faulty variant: the offset advances by one record
next_offset_one(o) == o + 1

\* offset += LIMIT
next_offset(o) == o + LIMIT

\* one turn of the loop of download_new_data: status 200 and a non-empty page
FetchPage ==
    /\ pc = "fetch"
    /\ Len(requests) < MaxPages
    /\ \E data \in ApiPages(last_collision_date[1]) :
         LET batch_df == createDataFrame(data)
         IN  /\ requests' = Append(requests, offset)
             /\ responses' = Append(responses, [status_code |-> 200, data |-> data])
             /\ IF all_data_df = Null
                THEN /\ all_data_df' = Some(batch_df)
                     /\ offset' = next_offset(offset)
                     /\ UNCHANGED <<pc, raised>>
                ELSE IF unionByNameRaises(all_data_df[1], batch_df)
                THEN /\ Raise("download_new_data")
                     /\ UNCHANGED <<all_data_df, offset>>
                ELSE /\ all_data_df' = Some(unionByName(all_data_df[1], batch_df))
                     /\ offset' = next_offset(offset)
                     /\ UNCHANGED <<pc, raised>>
    /\ calls' = IF requests = <<>> THEN Append(calls, "download_new_data") ELSE calls
    /\ UNCHANGED <<store, s3_logs, run, last_collision_date, new_last_collision_date, start>>

\* status 200 and an empty page: the loop ends, download_new_data returns
FetchEmptyPage ==
    /\ pc = "fetch"
    /\ requests' = Append(requests, offset)
    /\ responses' = Append(responses, [status_code |-> 200, data |-> <<>>])
    /\ calls' = IF requests = <<>> THEN Append(calls, "download_new_data") ELSE calls
    /\ pc' = "returned"
    /\ UNCHANGED <<store, s3_logs, run, last_collision_date, offset, all_data_df,
                   new_last_collision_date, raised, start>>

\* faulty variant: a status other than 200 raises (raise_for_status)
FetchBadStatus_Raises ==
    /\ pc = "fetch"
    /\ requests' = Append(requests, offset)
    /\ responses' = Append(responses, [status_code |-> 500, data |-> <<>>])
    /\ calls' = IF requests = <<>> THEN Append(calls, "download_new_data") ELSE calls
    /\ Raise("download_new_data")
    /\ UNCHANGED <<store, s3_logs, run, last_collision_date, offset, all_data_df,
                   new_last_collision_date, start>>

\* a status other than 200: the loop ends, download_new_data returns
FetchBadStatus ==
    /\ pc = "fetch"
    /\ requests' = Append(requests, offset)
    /\ responses' = Append(responses, [status_code |-> 500, data |-> <<>>])
    /\ calls' = IF requests = <<>> THEN Append(calls, "download_new_data") ELSE calls
    /\ pc' = "returned"
    /\ UNCHANGED <<store, s3_logs, run, last_collision_date, offset, all_data_df,
                   new_last_collision_date, raised, start>>

\* requests.get raises (no connection): download_new_data raises
FetchRaises ==
    /\ pc = "fetch"
    /\ requests' = Append(requests, offset)
    /\ calls' = IF requests = <<>> THEN Append(calls, "download_new_data") ELSE calls
    /\ Raise("download_new_data")
    /\ UNCHANGED <<store, s3_logs, run, last_collision_date, offset, all_data_df,
                   new_last_collision_date, responses, start>>

\* faulty variant: with nothing to process the watermark is written back
NoNewData_Updates ==
    /\ pc = "returned"
    /\ all_data_df = Null
    /\ Call("update_last_collision_date")
    /\ config_doc' = last_collision_date[1]
    /\ pc' = "finally"
    /\ UNCHANGED <<processed_data, redshift_table, s3_logs, run, last_collision_date,
                   offset, all_data_df, new_last_collision_date, requests, responses,
                   raised, start>>

\* all_data_df is None: nothing to process
NoNewData ==
    /\ pc = "returned"
    /\ all_data_df = Null
    /\ pc' = "finally"
    /\ UNCHANGED <<store, s3_logs, run, last_collision_date, offset, all_data_df,
                   new_last_collision_date, requests, responses, calls, raised, start>>

\* lines 314-322: count the records and take the date of the latest crash
ComputeMaxDate ==
    /\ pc = "returned"
    /\ all_data_df # Null
    /\ Call("max_crash_date")
    /\ IF MaxDateRaises(all_data_df[1])
       THEN /\ Raise("max_crash_date")
            /\ UNCHANGED new_last_collision_date
       ELSE /\ new_last_collision_date' = Some(MaxDate(all_data_df[1]))
            /\ pc' = "transform"
            /\ UNCHANGED raised
    /\ UNCHANGED <<store, s3_logs, run, last_collision_date, offset, all_data_df,
                   requests, responses, start>>

\* count() or collect() raises in the engine
ComputeMaxDateRaises ==
    /\ pc = "returned"
    /\ all_data_df # Null
    /\ Call("max_crash_date")
    /\ Raise("max_crash_date")
    /\ UNCHANGED <<store, s3_logs, run, last_collision_date, offset, all_data_df,
                   new_last_collision_date, requests, responses, start>>

\* transform_data(all_data_df): the result overwrites the processed data
Transform ==
    /\ pc = "transform"
    /\ Call("transform_data")
    /\ IF transform_data_raises(all_data_df[1])
       THEN /\ Raise("transform_data")
            /\ UNCHANGED processed_data
       ELSE /\ processed_data' = transform_data(all_data_df[1])
            /\ pc' = "load"
            /\ UNCHANGED raised
    /\ UNCHANGED <<config_doc, redshift_table, s3_logs, run, last_collision_date, offset,
                   all_data_df, new_last_collision_date, requests, responses, start>>

\* the write to the processed data path raises: mode("overwrite") may have
\* removed the previous contents already
TransformRaises ==
    /\ pc = "transform"
    /\ Call("transform_data")
    /\ Raise("transform_data")
    /\ processed_data' \in {processed_data, <<>>}
    /\ UNCHANGED <<config_doc, redshift_table, s3_logs, run, last_collision_date, offset,
                   all_data_df, new_last_collision_date, requests, responses, start>>

\* load_data_into_redshift: COPY appends the processed rows to the table
Load ==
    /\ pc = "load"
    /\ Call("load_data_into_redshift")
    /\ redshift_table' = redshift_table \o processed_data
    /\ pc' = "update"
    /\ UNCHANGED <<config_doc, processed_data, s3_logs, run, last_collision_date, offset,
                   all_data_df, new_last_collision_date, requests, responses, raised, start>>

\* faulty variant: the failure of the load is swallowed and main() goes on
LoadRaises_Swallowed ==
    /\ pc = "load"
    /\ Call("load_data_into_redshift")
    /\ raised' = "load_data_into_redshift"
    /\ pc' = "update"
    /\ UNCHANGED <<store, s3_logs, run, last_collision_date, offset, all_data_df,
                   new_last_collision_date, requests, responses, start>>

\* the connection or the COPY command raises
LoadRaises ==
    /\ pc = "load"
    /\ Call("load_data_into_redshift")
    /\ Raise("load_data_into_redshift")
    /\ UNCHANGED <<store, s3_logs, run, last_collision_date, offset, all_data_df,
                   new_last_collision_date, requests, responses, start>>

\* update_last_collision_date(new_last_collision_date)
UpdateWatermark ==
    /\ pc = "update"
    /\ Call("update_last_collision_date")
    /\ config_doc' = new_last_collision_date[1]
    /\ pc' = "finally"
    /\ UNCHANGED <<processed_data, redshift_table, s3_logs, run, last_collision_date,
                   offset, all_data_df, new_last_collision_date, requests, responses,
                   raised, start>>

\* put_object raises
UpdateWatermarkRaises ==
    /\ pc = "update"
    /\ Call("update_last_collision_date")
    /\ Raise("update_last_collision_date")
    /\ UNCHANGED <<store, s3_logs, run, last_collision_date, offset, all_data_df,
                   new_last_collision_date, requests, responses, start>>

\* finally: upload_logs_to_s3(), then the job ends; the upload itself may fail
UploadLogs ==
    /\ pc = "finally"
    /\ Call("upload_logs_to_s3")
    /\ s3_logs' \in {s3_logs, s3_logs + 1}
    /\ pc' = "end"
    /\ UNCHANGED <<store, run, last_collision_date, offset, all_data_df,
                   new_last_collision_date, requests, responses, raised, start>>

\* the job is invoked again, after the previous invocation has ended
NextRun ==
    /\ pc = "end"
    /\ run < MaxRuns
    /\ run' = run + 1
    /\ pc' = "read"
    /\ last_collision_date' = Null
    /\ offset' = 0
    /\ all_data_df' = Null
    /\ new_last_collision_date' = Null
    /\ requests' = <<>>
    /\ responses' = <<>>
    /\ calls' = <<>>
    /\ raised' = ""
    /\ start' = Snapshot
    /\ UNCHANGED <<store, s3_logs>>

\* ------------------------------------------- transform_data on its own
\* transform_data applied to a batch: the inputs are drawn by TInit.
FullRecord == RawRecord(Some(<<"8">>), 1)

CountStrs == {Null, Some(<<"x">>)} \cup {Some(IntToStr(n)) : n \in (0 - 1)..MaxCount}

VariedCols == InjuredCols \cup {"number_of_persons_killed", "number_of_motorist_killed"}

\* a record with the given collision_id and counts; a null of the assignment
\* is a field the JSON object does not hold
CountRecord(cid, counts) ==
    LET full == RawRecord(cid, 1)
        keys == DOMAIN full \ {c \in VariedCols : counts[c] = Null}
    IN  [f \in keys |-> IF f \in VariedCols THEN counts[f][1] ELSE full[f]]

\* the batch: the record alone, or followed by a record that holds every field
TransformInput(cid, counts, alone) ==
    IF alone THEN <<CountRecord(cid, counts)>>
    ELSE <<CountRecord(cid, counts), FullRecord>>

TInit ==
    /\ config_doc = DateStr(0)
    /\ processed_data = <<>>
    /\ redshift_table = <<>>
    /\ s3_logs = 0
    /\ run = 1
    /\ pc = "transform"
    /\ last_collision_date = Some(DateStr(0))
    /\ offset = 0
    /\ \E cid \in {Null, Some(<<"7">>), Some(<<"x">>)}, alone \in BOOLEAN,
          counts \in [VariedCols -> CountStrs] :
            all_data_df = Some(createDataFrame(TransformInput(cid, counts, alone)))
    /\ new_last_collision_date = Null
    /\ requests = <<>>
    /\ responses = <<>>
    /\ calls = <<>>
    /\ raised = ""
    /\ start = [config_doc |-> DateStr(0), processed_data |-> <<>>, redshift_table |-> <<>>]

TNext == Transform

SpecT == TInit /\ [][TNext]_vars

Step ==
    \/ ReadWatermark
    \/ ReadWatermarkRaises
    \/ FetchPage
    \/ FetchEmptyPage
    \/ FetchBadStatus
    \/ FetchRaises
    \/ NoNewData
    \/ ComputeMaxDate
    \/ ComputeMaxDateRaises
    \/ Transform
    \/ TransformRaises
    \/ Load
    \/ LoadRaises
    \/ UpdateWatermark
    \/ UpdateWatermarkRaises
    \/ UploadLogs

Next == Step \/ NextRun

Spec == Init /\ [][Next]_vars

\* one invocation of main(); main() is sequential code, a step that can be
\* taken is taken
FairRun == Init /\ [][Step]_vars /\ WF_vars(Step)

\* ============================================================== properties
Count(seq, x) == Cardinality({i \in 1..Len(seq) : seq[i] = x})

Called(step) == \E i \in 1..Len(calls) : calls[i] = step

PipelineSteps ==
    {"max_crash_date", "transform_data", "load_data_into_redshift",
     "update_last_collision_date"}

\* the pages of the responses 1..n of this run
PagesUpTo(n) == [i \in 1..n |-> responses[i].data]

RECURSIVE Flatten(_)
Flatten(pages) ==
    IF pages = <<>> THEN <<>>
    ELSE Flatten(SubSeq(pages, 1, Len(pages) - 1)) \o pages[Len(pages)]

\* the frame that is the union of the pages, in order: every record of every
\* page, a field a record lacks being null; Null (None) for no page
ExpectedFrame(pages) ==
    IF pages = <<>> THEN Null
    ELSE LET recs == Flatten(pages)
             cols == UNION {DOMAIN recs[i] : i \in 1..Len(recs)}
         IN  Some([columns |-> cols,
                   rows |-> [i \in 1..Len(recs) |->
                              [c \in cols |->
                                 IF c \in DOMAIN recs[i] THEN Some(recs[i][c]) ELSE Null]]])

IsStop(resp) == resp.status_code # 200 \/ resp.data = <<>>

\* download_new_data has returned to main() in this run
Returned == Called("download_new_data") /\ pc # "fetch" /\ raised # "download_new_data"

\* ---------------------------------------------------------------------- C1
\* C1: in every run of main(), whichever step raises or if none does,
\* upload_logs_to_s3 is eventually executed, exactly once, after the last
\* pipeline step that ran and before the job ends.
C1_LogsUploadedOnce ==
    /\ [](pc = "end" =>
            /\ Count(calls, "upload_logs_to_s3") = 1
            /\ calls[Len(calls)] = "upload_logs_to_s3")
    /\ [](pc # "end" => Count(calls, "upload_logs_to_s3") = 0)
    /\ <>(pc = "end")

\* a run in which the load raised has ended with the logs uploaded
C1_Witness ==
    /\ pc = "end"
    /\ raised = "load_data_into_redshift"
    /\ calls[Len(calls)] = "upload_logs_to_s3"

\* ---------------------------------------------------------------------- C2
\* C2: the stored watermark never decreases: in every run it is at least the
\* value the run started with, which is the value the run read, so a value a
\* run writes is greater than or equal to the value it read.
C2_WatermarkMonotonic ==
    /\ StrLeq(start.config_doc, config_doc)
    /\ last_collision_date # Null =>
         /\ last_collision_date[1] = start.config_doc
         /\ StrLeq(last_collision_date[1], config_doc)

\* a later run has written a watermark greater than the one it read
C2_Witness ==
    /\ run > 1
    /\ Called("update_last_collision_date")
    /\ raised = ""
    /\ StrLess(last_collision_date[1], config_doc)

\* ---------------------------------------------------------------------- C3
\* C3: within one run the watermark is written at most once, only after
\* transform_data and load_data_into_redshift have completed without raising
\* in that run; if a step before update_last_collision_date raises, the
\* stored watermark is the one the run started with.
C3_WatermarkWrittenOnceAfterLoad ==
    /\ Count(calls, "update_last_collision_date") <= 1
    /\ Called("update_last_collision_date") =>
         /\ \E i, j, k \in 1..Len(calls) :
              /\ i < j /\ j < k
              /\ calls[i] = "transform_data"
              /\ calls[j] = "load_data_into_redshift"
              /\ calls[k] = "update_last_collision_date"
         /\ raised \in {"", "update_last_collision_date"}
    /\ config_doc # start.config_doc =>
         Called("update_last_collision_date") /\ raised = ""
    /\ raised # "" => config_doc = start.config_doc

\* a run whose load raised after a later date had been computed has ended
C3_Witness ==
    /\ pc = "end"
    /\ raised = "load_data_into_redshift"
    /\ new_last_collision_date # Null
    /\ new_last_collision_date[1] # config_doc

\* ---------------------------------------------------------------------- C4
\* C4: when the API answers a page request with a non-success status, the
\* stored watermark at the end of the run equals the value read at its start.
C4_FailedFetchKeepsWatermark ==
    (/\ pc = "end"
     /\ \E i \in 1..Len(responses) : responses[i].status_code # 200)
    => config_doc = last_collision_date[1]

C6_StopsAtFirstEmptyOrFailedPage ==
    /\ \A i \in 1..(Len(responses) - 1) : ~IsStop(responses[i])
    /\ Len(requests) >= Len(responses)
    /\ (responses # <<>> /\ IsStop(responses[Len(responses)])) =>
         /\ Len(requests) = Len(responses)
         /\ Returned
         /\ all_data_df = ExpectedFrame(PagesUpTo(Len(responses) - 1))
    /\ Returned => responses # <<>> /\ IsStop(responses[Len(responses)])

\* a non-success status after one page: the page is returned, nothing raised
C6_Witness ==
    /\ Len(responses) = 2
    /\ responses[2].status_code # 200
    /\ pc = "returned"
    /\ raised = ""
    /\ all_data_df # Null

\* ---------------------------------------------------------------------- C7
\* C7: when download_new_data returns no dataset, none of the max-date
\* computation, transform_data, load_data_into_redshift and
\* update_last_collision_date is called, and the processed dataset, the
\* warehouse table and the stored watermark are those the run started with.
C7_NoDataLeavesStoreUnchanged ==
    (Returned /\ all_data_df = Null)
    => /\ \A i \in 1..Len(calls) : calls[i] \notin PipelineSteps
       /\ Snapshot = start
       /\ pc \in {"returned", "finally", "end"}

\* a run that found a store filled by an earlier run and fetched nothing
C7_Witness ==
    /\ pc = "end"
    /\ Returned
    /\ all_data_df = Null
    /\ start.redshift_table # <<>>
    /\ start.processed_data # <<>>

\* ---------------------------------------------------------------------- C8
FetchedRecords == Flatten(PagesUpTo(Len(responses)))

\* the date part of the greatest crash_date of the fetched records
FetchedMaxDate ==
    LET recs == FetchedRecords
        m == CHOOSE i \in 1..Len(recs) :
               \A j \in 1..Len(recs) : StrLeq(recs[j]["crash_date"], recs[i]["crash_date"])
    IN  SplitT(recs[m]["crash_date"])

WithCollisionId == SelectSeq(FetchedRecords, LAMBDA rec : "collision_id" \in DOMAIN rec)

LoadSucceeded ==
    /\ Called("load_data_into_redshift")
    /\ raised \notin {"transform_data", "load_data_into_redshift"}
    /\ pc \in {"update", "finally", "end"}

C8_Result ==
    /\ config_doc = FetchedMaxDate
    /\ Len(processed_data) = Len(WithCollisionId)
    /\ \A i \in 1..Len(processed_data) :
         processed_data[i]["collision_id"] = CastInt(Some(WithCollisionId[i]["collision_id"]))

C9_CollisionIdNonNull ==
    (pc = "load") =>
       \A i \in 1..Len(processed_data) :
          /\ processed_data[i]["collision_id"] # Null
          /\ processed_data[i]["collision_id"][1] \in Int

\* --------------------------------------------------------------------- C10
SeverityByTotals(ti, tf) ==
    IF ti = Null \/ tf = Null THEN "Severe"
    ELSE IF ti[1] + tf[1] = 0 THEN "Minor"
    ELSE IF ti[1] + tf[1] # 0 /\ ti[1] + tf[1] <= 2 THEN "Moderate"
    ELSE "Severe"

\* C10: in the output of transform_data, severity_category is "Minor" when
\* total_injuries + total_fatalities is 0, "Moderate" when it is non-zero and
\* at most 2, "Severe" otherwise, also when a total is null; a total is null
\* exactly when one of its constituent counts is.
C10_SeverityCategory ==
    (pc = "load") =>
       \A i \in 1..Len(processed_data) :
          LET row == processed_data[i]
          IN  /\ row["severity_category"] =
                   Some(SeverityByTotals(row["total_injuries"], row["total_fatalities"]))
              /\ (row["total_injuries"] = Null) <=> (\E c \in InjuredCols : row[c] = Null)
              /\ (row["total_fatalities"] = Null) <=> (\E c \in KilledCols : row[c] = Null)

\* a row whose injuries are null for a missing count is Severe, beside a
\* row of no injuries and no fatalities that is Minor
C10_Witness ==
    /\ pc = "load"
    /\ Len(processed_data) = 2
    /\ processed_data[1]["total_injuries"] = Null
    /\ processed_data[1]["total_fatalities"] = Some(0)
    /\ processed_data[1]["severity_category"] = Some("Severe")
    /\ processed_data[2]["severity_category"] = Some("Minor")

====
